---- MODULE Spec2Model ----
(***************************************************************************)
(* A model of ollama_cli.py: the main menu loop, the model selection flow, *)
(* ensure_model_exists (pull-if-missing), the streaming chat loop with its *)
(* sub-menu, and the pull / remove / stop / list operations.               *)
(*                                                                         *)
(* The program is one sequential control flow.  It blocks only at input()  *)
(* and at reading the next element of a daemon stream, so one action of    *)
(* the model is the code that runs from one blocking point to the next.    *)
(* The daemon is external: every call may fail, ollama.list() may return   *)
(* any listing, and a stream may yield an element, end, or raise.          *)
(*                                                                         *)
(* Text is a sequence of one-character strings, so that strip() and        *)
(* lower() are computed and not assumed.  input() is modelled for lines of *)
(* input; end-of-file and interrupts are outside the model.                *)
(***************************************************************************)
EXTENDS Naturals, Sequences, FiniteSets

VARIABLES
    pc,               \* where main() and the function it is running are blocked
    is_alive,         \* main(): result of the last pre_validation()
    MODEL_NAME,       \* the global of line 11
    model_name,       \* pull_model/remove_model/stop_model local, ensure_model_exists parameter
    installed_names,  \* select_and_run_model: list returned by list_installed_models()
    models,           \* ensure_model_exists: names extracted from ollama.list()
    session,          \* run_llama: state of the chat loop
    stream,           \* state of the daemon stream being consumed
    delivered,        \* elements the daemon stream has yielded so far
    out,              \* what has been printed since the last input() returned
    inp,              \* the line the last input() returned
    calls,            \* daemon operations invoked by the last step, in order
    fault,            \* exception raised during the last step ("none" if none)
    last              \* the step that ran last

vars == <<pc, is_alive, MODEL_NAME, model_name, installed_names, models, session,
          stream, delivered, out, inp, calls, fault, last>>

----------------------------------------------------------------------------
\* Bounds of the model.
MaxModels == 2      \* longest listing ollama.list() returns
MaxStream == 3      \* most elements one pull or chat stream yields

----------------------------------------------------------------------------
\* Text.
Range(s) == {s[i] : i \in 1..Len(s)}

Latest == <<":", "l", "a", "t", "e", "s", "t">>

\* str.lower() on one character.
LowerChar(ch) ==
    CASE ch = "C" -> "c" [] ch = "Q" -> "q" [] ch = "E" -> "e" [] ch = "X" -> "x"
      [] ch = "I" -> "i" [] ch = "T" -> "t" [] ch = "U" -> "u" [] ch = "Y" -> "y"
      [] ch = "M" -> "m" [] OTHER -> ch

\* str.lower()
Lower(s) == [i \in 1..Len(s) |-> LowerChar(s[i])]

RECURSIVE LStrip(_)
LStrip(s) == IF s # <<>> /\ Head(s) = " " THEN LStrip(Tail(s)) ELSE s

RECURSIVE RStrip(_)
RStrip(s) ==
    IF s # <<>> /\ s[Len(s)] = " " THEN RStrip(SubSeq(s, 1, Len(s) - 1)) ELSE s

\* str.strip()
Strip(s) == RStrip(LStrip(s))

----------------------------------------------------------------------------
\* What the daemon and the user can supply.
ModelNames == {<<"m">>, <<"m">> \o Latest, <<"M">> \o Latest, <<"p">>}

\* Listings: names are unique within one listing.
ModelLists ==
    {s \in UNION {[1..n -> ModelNames] : n \in 0..MaxModels} :
        \A i, j \in 1..Len(s) : i # j => s[i] # s[j]}

NameInputs ==
    {<<"m">>, <<" ", "m", " ">>, <<"M">>, <<"m">> \o Latest, <<"p">>, <<"z">>,
     <<>>, <<" ">>}

PromptInputs ==
    {<<"h", "i">>, <<"q">>, <<"Q">>, <<" ", "q", " ">>, <<"e", "x", "i", "t">>,
     <<"E", "x", "I", "t">>, <<"q", "u", "i", "t">>, <<"Q", "U", "I", "T">>,
     <<"c">>, <<"e", "x">>, <<>>, <<" ">>}

SubMenuInputs ==
    {<<"c">>, <<"C">>, <<" ", "c">>, <<"q">>, <<"Q">>, <<"q", " ">>, <<"x">>,
     <<"c", "c">>, <<"e", "x", "i", "t">>, <<>>, <<" ">>}

ConfirmInputs == {<<"y">>, <<"Y">>, <<"n">>, <<" ", "y">>, <<"y", "e", "s">>, <<>>}

QueryInputs == {<<"m">>, <<"M">>, <<>>, <<" ">>}

MenuChoices ==
    {<<"0">>, <<"1">>, <<"2">>, <<"3">>, <<"4">>, <<"5">>, <<"6">>, <<"7">>, <<"8">>,
     <<"9">>, <<"1", "0">>, <<"1", "1">>, <<" ", "1">>, <<"x">>, <<>>}

\* Elements of a pull stream: progress objects, with or without a status.
Progresses == {[status |-> "pulling manifest"], [status |-> "downloading"],
               [completed |-> "1"]}

\* Elements of a chat stream: chunks, with or without message.content.
Chunks == {[message |-> [content |-> "Hel"]], [message |-> [content |-> "lo"]],
           [message |-> [role |-> "assistant"]], [done |-> "true"]}

\* Results of reading a file or directory.
FsResults == {"ok", "FileNotFoundError", "PermissionError", "OSError"}

----------------------------------------------------------------------------
\* Printed items.
Note(t) == [k |-> "note", v |-> t]

Row(name) == [k |-> "row", v |-> name]

StatusLine(s) == [k |-> "status", v |-> s]

Fragment(s) == [k |-> "fragment", v |-> s]

----------------------------------------------------------------------------
\* Pure parts of the code.

\* pre_validation: True when ollama.list() returned, False when it raised.
pre_validation(listOk) == listOk

\* confirm_action: confirm.lower() == 'y'
confirm_action(confirm) == Lower(confirm) = <<"y">>

\* CatchAll with show_ps left without its try block.
CatchAll_noShowPs ==
    {"pre_validation", "fetch_all_remote_data", "list_remote_models",
     "list_installed_models", "pull_model", "remove_model", "ensure_model_exists",
     "run_llama", "stop_model"}

\* The functions whose daemon, network or file access sits in try/except Exception.
CatchAll ==
    {"pre_validation", "fetch_all_remote_data", "list_remote_models",
     "list_installed_models", "pull_model", "remove_model", "ensure_model_exists",
     "run_llama", "show_ps", "stop_model"}

\* Whether function fn handles exception exc raised inside it.
Catches(fn, exc) ==
    \/ fn \in CatchAll
    \/ fn = "show_public_keys" /\ exc \in {"FileNotFoundError", "PermissionError"}

\* InModels without the ":latest" alternative.
InModels_exactOnly(name, L) == name \in Range(L)

\* ensure_model_exists: the membership test of line 184 (True when no pull is needed).
InModels(name, L) == name \in Range(L) \/ (name \o Latest) \in Range(L)

\* MatchModel without the ":latest" alternative.
MatchModel_exactOnly(user_choice, names) ==
    IF user_choice \in Range(names) THEN user_choice ELSE <<>>

\* select_and_run_model: matched_model, "" when nothing matches.
MatchModel(user_choice, names) ==
    IF user_choice \in Range(names) THEN user_choice
    ELSE IF (user_choice \o Latest) \in Range(names) THEN user_choice \o Latest
    ELSE <<>>

\* run_llama: the keywords of line 244.
ExitKeywords == {<<"e", "x", "i", "t">>, <<"q", "u", "i", "t">>, <<"q">>}

\* IsExit without lower().
IsExit_caseSensitive(prompt) == prompt \in ExitKeywords

\* run_llama: prompt.lower() in ["exit", "quit", "q"]
IsExit(prompt) == Lower(prompt) \in ExitKeywords

\* SubMenuChoice without lower().
SubMenuChoice_noLower(raw) == Strip(raw)

\* run_llama: the sub-menu choice, input().lower().strip()
SubMenuChoice(raw) == Strip(Lower(raw))

\* progress.get('status', '')
StatusOf(progress) == IF "status" \in DOMAIN progress THEN progress.status ELSE ""

\* chunk.get('message', {}).get('content', '')
ContentOf(chunk) ==
    IF "message" \in DOMAIN chunk /\ "content" \in DOMAIN chunk.message
    THEN chunk.message.content ELSE ""

\* PullEndNote reporting ready whatever happened.
PullEndNote_alwaysReady(clean) == Note("pull_ready")

\* The line printed when a pull stream ends: ready after a clean end, failure after a raise.
PullEndNote(clean) == IF clean THEN Note("pull_ready") ELSE Note("pull_failed")

\* The line printed for one progress element of a pull stream.
ShowProgress(o, progress) == Append(o, StatusLine(StatusOf(progress)))

\* ShowChunk printing the newest chunk in front of the earlier ones.
ShowChunk_prepend(o, chunk) == <<Fragment(ContentOf(chunk))>> \o o

\* The output after one chunk of a chat stream has been printed.
ShowChunk(o, chunk) == Append(o, Fragment(ContentOf(chunk)))

\* ChatErrorOut replacing what the turn has printed by the notice.
ChatErrorOut_retract(o) == <<Note("chat_error")>>

\* run_llama, line 274: the notice follows what the turn has already printed.
ChatErrorOut(o) == Append(o, Note("chat_error"))

\* list_installed_models: what it prints for listing L.
ListOut(L) ==
    <<Note("installed_title")>> \o
    (IF L = <<>> THEN <<>>
     ELSE <<Note("table_header")>> \o [i \in 1..Len(L) |-> Row(L[i])])

----------------------------------------------------------------------------
Init ==
    /\ pc = "main"
    /\ is_alive = FALSE
    /\ MODEL_NAME = <<>>
    /\ model_name = <<>>
    /\ installed_names = <<>>
    /\ models = <<>>
    /\ session = "NoSession"
    /\ stream = "none"
    /\ delivered = <<>>
    /\ out = <<>>
    /\ inp = <<>>
    /\ calls = <<>>
    /\ fault = "none"
    /\ last = "start"

\* What the last step did.
Trace(step, c, f) == last' = step /\ calls' = c /\ fault' = f

\* No daemon stream is open after the step.
NoStream == stream' = "none" /\ delivered' = <<>>

\* The locals of select_and_run_model and ensure_model_exists are not in use.
NoLocals == installed_names' = <<>> /\ models' = <<>>

\* An exception nothing catches: the traceback is printed and the process ends.
Crash(step, c, f) ==
    /\ pc' = "crashed"
    /\ Trace(step, c, f)
    /\ out' = <<Note("traceback")>>
    /\ session' = "NoSession"
    /\ NoStream /\ NoLocals
    /\ UNCHANGED <<is_alive, MODEL_NAME, model_name>>

\* A menu operation that starts no session and opens no stream returns; main()
\* goes on to "Press Enter to continue...".
Return(step, c, f, o) ==
    /\ pc' = "pause"
    /\ Trace(step, c, f)
    /\ out' = o
    /\ session' = "NoSession"
    /\ NoStream /\ NoLocals
    /\ UNCHANGED <<is_alive, MODEL_NAME, model_name>>

\* main(), lines 373-397: header, pre_validation, the menu for the status.
MainLoop ==
    /\ pc = "main"
    /\ \E listOk \in BOOLEAN :
        IF listOk \/ Catches("pre_validation", "Exception")
        THEN /\ is_alive' = pre_validation(listOk)
             /\ out' = <<Note("header"),
                         IF pre_validation(listOk) THEN Note("menu_online")
                         ELSE Note("menu_offline")>>
             /\ pc' = "choice"
             /\ Trace("MainLoop", <<"list">>, IF listOk THEN "none" ELSE "list")
             /\ session' = "NoSession"
             /\ NoStream /\ NoLocals
             /\ UNCHANGED <<MODEL_NAME, model_name>>
        ELSE Crash("MainLoop", <<"list">>, "list")
    /\ UNCHANGED inp

\* list_installed_models, lines 124-151, as called with the daemon answering L
\* (listOk) or raising: the names it returns.
list_installed_models(listOk, L) == IF listOk THEN L ELSE <<>>

\* select_and_run_model, lines 197-210: list the installed models; stop when
\* there are none, else ask for a name.
SelectAndRunModel(choice) ==
    \E listOk \in BOOLEAN, L \in ModelLists :
        LET names == list_installed_models(listOk, L)
            f == IF listOk THEN "none" ELSE "list"
            shown == IF listOk THEN ListOut(L)
                     ELSE <<Note("installed_title"), Note("list_error")>>
        IN  IF ~listOk /\ ~Catches("list_installed_models", "Exception")
            THEN Crash("MainChoice", <<"list">>, f)
            ELSE IF names = <<>>
            THEN Return("MainChoice", <<"list">>, f, shown \o <<Note("no_models")>>)
            ELSE /\ pc' = "select_name"
                 /\ installed_names' = names
                 /\ models' = <<>>
                 /\ out' = shown
                 /\ Trace("MainChoice", <<"list">>, f)
                 /\ session' = "NoSession"
                 /\ NoStream
                 /\ UNCHANGED <<is_alive, MODEL_NAME, model_name>>

\* list_remote_models, lines 47-88: one page fetch, inside try/except Exception.
ListRemoteModels ==
    \E r \in {"items", "none", "error"} :
        IF r = "error" /\ ~Catches("list_remote_models", "Exception")
        THEN Crash("MainChoice", <<>>, "http")
        ELSE Return("MainChoice", <<>>, IF r = "error" THEN "http" ELSE "none",
                    <<Note("querying"),
                      CASE r = "items" -> Note("remote_rows")
                        [] r = "none" -> Note("could_not_parse")
                        [] OTHER -> Note("fetch_error")>>)

\* list_installed_models as menu item 4.
ListInstalledModels ==
    \E listOk \in BOOLEAN, L \in ModelLists :
        IF ~listOk /\ ~Catches("list_installed_models", "Exception")
        THEN Crash("MainChoice", <<"list">>, "list")
        ELSE Return("MainChoice", <<"list">>, IF listOk THEN "none" ELSE "list",
                    IF listOk THEN ListOut(L)
                    ELSE <<Note("installed_title"), Note("list_error")>>)

\* show_ps, lines 277-288.
ShowPs ==
    \E r \in {"running", "empty", "error"} :
        IF r = "error" /\ ~Catches("show_ps", "Exception")
        THEN Crash("MainChoice", <<"ps">>, "ps")
        ELSE Return("MainChoice", <<"ps">>, IF r = "error" THEN "ps" ELSE "none",
                    <<Note("loaded_title"),
                      CASE r = "running" -> Note("running_rows")
                        [] r = "empty" -> Note("memory_clear")
                        [] OTHER -> Note("ps_error")>>)

\* show_public_keys, lines 316-335: only FileNotFoundError and PermissionError
\* are handled.
ShowPublicKeys ==
    \E r \in FsResults :
        IF r # "ok" /\ ~Catches("show_public_keys", r)
        THEN Crash("MainChoice", <<>>, r)
        ELSE Return("MainChoice", <<>>, IF r = "ok" THEN "none" ELSE r,
                    <<Note("key_title"),
                      CASE r = "ok" -> Note("key_text")
                        [] r = "FileNotFoundError" -> Note("key_not_found")
                        [] OTHER -> Note("permission_denied")>>)

\* list_model_manifests, lines 337-370: the directory reads are in no try block.
ListModelManifests ==
    \E r \in FsResults :
        IF r # "ok" /\ ~Catches("list_model_manifests", r)
        THEN Crash("MainChoice", <<>>, r)
        ELSE Return("MainChoice", <<>>, IF r = "ok" THEN "none" ELSE r,
                    <<Note("manifest_rows")>>)

\* A menu item whose first act is to ask for a line: the operation blocks there.
AskAt(place) ==
    /\ pc' = place
    /\ Trace("MainChoice", <<>>, "none")
    /\ out' = <<>>
    /\ session' = "NoSession"
    /\ NoStream /\ NoLocals
    /\ UNCHANGED <<is_alive, MODEL_NAME, model_name>>

\* The dispatch of main(), lines 399-410, on the line read at line 397.  The
\* chain compares the line with the literals; is_alive is not consulted.
Dispatch(choice) ==
    CASE choice = <<"0">> ->
            /\ pc' = "exited"
            /\ Trace("MainChoice", <<>>, "none")
            /\ out' = <<>>
            /\ session' = "NoSession"
            /\ NoStream /\ NoLocals
            /\ UNCHANGED <<is_alive, MODEL_NAME, model_name>>
      [] choice = <<"1">> -> SelectAndRunModel(choice)
      [] choice = <<"2">> -> ListRemoteModels
      [] choice = <<"3">> -> AskAt("search_query")
      [] choice = <<"4">> -> ListInstalledModels
      [] choice = <<"5">> -> ShowPs
      [] choice = <<"6">> -> AskAt("pull_name")
      [] choice = <<"7">> -> AskAt("remove_name")
      [] choice = <<"8">> -> AskAt("stop_name")
      [] choice = <<"9">> -> ShowPublicKeys
      [] choice = <<"1", "0">> -> ListModelManifests
      [] choice = <<"1", "1">> -> Return("MainChoice", <<>>, "none", <<Note("paths")>>)
      [] OTHER -> Return("MainChoice", <<>>, "none", <<>>)

\* main(), lines 397-410: read the selection and dispatch it.
MainChoice ==
    /\ pc = "choice"
    /\ \E choice \in MenuChoices :
        /\ inp' = choice
        /\ Dispatch(choice)

\* main(), line 412: "Press Enter to continue...", then the loop starts over.
Pause ==
    /\ pc = "pause"
    /\ \E line \in {<<>>, <<"x">>} :
        /\ inp' = line
        /\ pc' = "main"
        /\ Trace("Pause", <<>>, "none")
        /\ out' = <<>>
        /\ session' = "NoSession"
        /\ NoStream /\ NoLocals
        /\ UNCHANGED <<is_alive, MODEL_NAME, model_name>>

\* ensure_model_exists(MODEL_NAME) as run_llama calls it (lines 174-195, 234-237),
\* after o was printed: list, test membership, and either report the model
\* ready, which starts the chat loop, or start the pull stream.
RunLlama(step, name, o) ==
    \E listOk \in BOOLEAN, L \in ModelLists :
        LET checking == o \o <<Note("checking")>>
        IN  /\ model_name' = name
            /\ UNCHANGED is_alive
            /\ IF ~listOk
               THEN IF Catches("ensure_model_exists", "Exception")
                    THEN /\ pc' = "pause"
                         /\ Trace(step, <<"list">>, "list")
                         /\ out' = checking \o <<Note("ensure_error")>>
                         /\ session' = "NoSession"
                         /\ models' = <<>>
                         /\ NoStream
                    ELSE /\ pc' = "crashed"
                         /\ Trace(step, <<"list">>, "list")
                         /\ out' = <<Note("traceback")>>
                         /\ session' = "NoSession"
                         /\ models' = <<>>
                         /\ NoStream
               ELSE /\ models' = L
                    /\ IF InModels(name, L)
                       THEN /\ pc' = "chat_prompt"
                            /\ Trace(step, <<"list">>, "none")
                            /\ out' = checking \o <<Note("ensure_ready"), Note("chat_started")>>
                            /\ session' = "AwaitingPrompt"
                            /\ NoStream
                       ELSE /\ pc' = "ensure_pulling"
                            /\ Trace(step, <<"list", "pull">>, "none")
                            /\ out' = checking \o <<Note("downloading_now")>>
                            /\ session' = "NoSession"
                            /\ stream' = "open"
                            /\ delivered' = <<>>

\* select_and_run_model, lines 210-229: read the name, match it, and on a
\* match set MODEL_NAME and call run_llama.
SelectName ==
    /\ pc = "select_name"
    /\ \E raw \in NameInputs :
        LET user_choice == Strip(raw)
            matched_model == MatchModel(user_choice, installed_names)
        IN  /\ inp' = raw
            /\ IF user_choice = <<>>
               THEN Return("SelectName", <<>>, "none", <<>>)
               ELSE IF matched_model # <<>>
               THEN /\ MODEL_NAME' = matched_model
                    /\ UNCHANGED installed_names
                    /\ RunLlama("SelectName", matched_model, <<Note("selected")>>)
               ELSE Return("SelectName", <<>>, "none", <<Note("not_in_list")>>)

\* ensure_model_exists, lines 186-195, and run_llama lines 234-237: one
\* element of the pull stream is read and shown, or the stream ends and the
\* chat loop starts, or the stream raises and run_llama returns.
EnsurePullStep ==
    /\ pc = "ensure_pulling"
    /\ UNCHANGED <<inp, is_alive, MODEL_NAME, model_name, installed_names, models>>
    /\ \/ /\ Len(delivered) < MaxStream
          /\ \E progress \in Progresses :
              /\ delivered' = Append(delivered, progress)
              /\ out' = ShowProgress(out, progress)
          /\ stream' = "open"
          /\ pc' = "ensure_pulling"
          /\ session' = "NoSession"
          /\ Trace("EnsurePullStep", <<>>, "none")
       \/ /\ stream' = "done"
          /\ out' = out \o <<PullEndNote(TRUE), Note("chat_started")>>
          /\ pc' = "chat_prompt"
          /\ session' = "AwaitingPrompt"
          /\ Trace("EnsurePullStep", <<>>, "none")
          /\ UNCHANGED delivered
       \/ /\ stream' = "error"
          /\ Trace("EnsurePullStep", <<>>, "pull")
          /\ session' = "NoSession"
          /\ UNCHANGED delivered
          /\ IF Catches("ensure_model_exists", "Exception")
             THEN pc' = "pause" /\ out' = Append(out, PullEndNote(FALSE))
             ELSE pc' = "crashed" /\ out' = <<Note("traceback")>>

\* run_llama, lines 241-256: read the prompt; leave on an exit keyword, else
\* call ollama.chat with the prompt and print the reply's header.
ChatPrompt ==
    /\ pc = "chat_prompt"
    /\ UNCHANGED <<is_alive, MODEL_NAME, model_name>>
    /\ NoLocals
    /\ delivered' = <<>>
    /\ \E raw \in PromptInputs :
        LET prompt == Strip(raw)
        IN  /\ inp' = raw
            /\ IF IsExit(prompt)
               THEN /\ pc' = "pause"
                    /\ session' = "Terminated"
                    /\ stream' = "none"
                    /\ out' = <<Note("returning")>>
                    /\ Trace("ChatPrompt", <<>>, "none")
               ELSE \/ /\ pc' = "streaming"
                       /\ session' = "Streaming"
                       /\ stream' = "open"
                       /\ out' = <<Note("llama_header")>>
                       /\ Trace("ChatPrompt", <<"chat">>, "none")
                    \/ /\ stream' = "none"
                       /\ Trace("ChatPrompt", <<"chat">>, "chat")
                       /\ IF Catches("run_llama", "Exception")
                          THEN /\ pc' = "pause"
                               /\ session' = "Terminated"
                               /\ out' = ChatErrorOut(<<>>)
                          ELSE /\ pc' = "crashed"
                               /\ session' = "NoSession"
                               /\ out' = <<Note("traceback")>>

\* run_llama, lines 257-260 and 273-275: one chunk is read and printed, or
\* the stream ends and the sub-menu opens, or the stream raises and the loop
\* is left.
ChatStreamStep ==
    /\ pc = "streaming"
    /\ UNCHANGED <<inp, is_alive, MODEL_NAME, model_name, installed_names, models>>
    /\ \/ /\ Len(delivered) < MaxStream
          /\ \E chunk \in Chunks :
              /\ delivered' = Append(delivered, chunk)
              /\ out' = ShowChunk(out, chunk)
          /\ stream' = "open"
          /\ pc' = "streaming"
          /\ session' = "Streaming"
          /\ Trace("ChatStreamStep", <<>>, "none")
       \/ /\ stream' = "done"
          /\ out' = Append(out, Note("newline"))
          /\ pc' = "submenu"
          /\ session' = "SubMenu"
          /\ Trace("ChatStreamStep", <<>>, "none")
          /\ UNCHANGED delivered
       \/ /\ stream' = "error"
          /\ Trace("ChatStreamStep", <<>>, "chat")
          /\ UNCHANGED delivered
          /\ IF Catches("run_llama", "Exception")
             THEN /\ pc' = "pause"
                  /\ session' = "Terminated"
                  /\ out' = ChatErrorOut(out)
             ELSE /\ pc' = "crashed"
                  /\ session' = "NoSession"
                  /\ out' = <<Note("traceback")>>

\* run_llama, lines 263-271: the sub-menu.
SubMenuInput ==
    /\ pc = "submenu"
    /\ UNCHANGED <<is_alive, MODEL_NAME, model_name>>
    /\ NoLocals /\ NoStream
    /\ \E raw \in SubMenuInputs :
        LET choice == SubMenuChoice(raw)
        IN  /\ inp' = raw
            /\ Trace("SubMenuInput", <<>>, "none")
            /\ IF choice = <<"c">>
               THEN /\ pc' = "chat_prompt"
                    /\ session' = "AwaitingPrompt"
                    /\ out' = <<>>
               ELSE IF choice = <<"q">>
               THEN /\ pc' = "pause"
                    /\ session' = "Terminated"
                    /\ out' = <<Note("returning")>>
               ELSE /\ pc' = "submenu"
                    /\ session' = "SubMenu"
                    /\ out' = <<Note("invalid_input")>>

\* pull_model, remove_model, stop_model: the first line read is the name
\* (lines 154, 166, 291); it is kept as typed.
ReadName(place, next) ==
    /\ pc = place
    /\ \E raw \in NameInputs :
        /\ inp' = raw
        /\ model_name' = raw
        /\ pc' = next
        /\ Trace("ReadName", <<>>, "none")
        /\ out' = <<>>
        /\ session' = "NoSession"
        /\ NoStream /\ NoLocals
        /\ UNCHANGED <<is_alive, MODEL_NAME>>

PullModelName == ReadName("pull_name", "pull_confirm")

RemoveModelName == ReadName("remove_name", "remove_confirm")

StopModelName == ReadName("stop_name", "stop_confirm")

\* pull_model, lines 155-158: after a yes the pull stream is opened.
PullModelConfirm ==
    /\ pc = "pull_confirm"
    /\ \E confirm \in ConfirmInputs :
        /\ inp' = confirm
        /\ IF confirm_action(confirm)
           THEN /\ pc' = "pulling"
                /\ Trace("PullModelConfirm", <<"pull">>, "none")
                /\ out' = <<Note("pulling")>>
                /\ session' = "NoSession"
                /\ stream' = "open"
                /\ delivered' = <<>>
                /\ NoLocals
                /\ UNCHANGED <<is_alive, MODEL_NAME, model_name>>
           ELSE Return("PullModelConfirm", <<>>, "none", <<>>)

\* pull_model, lines 158-163: one progress element is read and shown, or the
\* stream ends, or it raises.
PullStep ==
    /\ pc = "pulling"
    /\ UNCHANGED <<inp, is_alive, MODEL_NAME, model_name, installed_names, models,
                   session>>
    /\ \/ /\ Len(delivered) < MaxStream
          /\ \E progress \in Progresses :
              /\ delivered' = Append(delivered, progress)
              /\ out' = ShowProgress(out, progress)
          /\ stream' = "open"
          /\ pc' = "pulling"
          /\ Trace("PullStep", <<>>, "none")
       \/ /\ stream' = "done"
          /\ out' = Append(out, PullEndNote(TRUE))
          /\ pc' = "pause"
          /\ Trace("PullStep", <<>>, "none")
          /\ UNCHANGED delivered
       \/ /\ stream' = "error"
          /\ Trace("PullStep", <<>>, "pull")
          /\ UNCHANGED delivered
          /\ IF Catches("pull_model", "Exception")
             THEN pc' = "pause" /\ out' = Append(out, PullEndNote(FALSE))
             ELSE pc' = "crashed" /\ out' = <<Note("traceback")>>

\* remove_model and stop_model after the name: confirm, then one daemon call
\* (ollama.delete, lines 167-172; ollama.generate with keep_alive=0, lines 292-298).
ConfirmAndCall(place, step, fn, op) ==
    /\ pc = place
    /\ \E confirm \in ConfirmInputs, callOk \in BOOLEAN :
        /\ inp' = confirm
        /\ IF ~confirm_action(confirm)
           THEN Return(step, <<>>, "none", <<>>)
           ELSE IF callOk
           THEN Return(step, <<op>>, "none", <<Note("done")>>)
           ELSE IF Catches(fn, "Exception")
           THEN Return(step, <<op>>, op, <<Note("call_error")>>)
           ELSE Crash(step, <<op>>, op)

RemoveModelConfirm ==
    ConfirmAndCall("remove_confirm", "RemoveModelConfirm", "remove_model", "delete")

StopModelConfirm ==
    ConfirmAndCall("stop_confirm", "StopModelConfirm", "stop_model", "generate")

\* search_remote_models, lines 90-122: the query is lower-cased; an empty
\* query cancels, else the page is fetched by fetch_all_remote_data.
SearchQuery ==
    /\ pc = "search_query"
    /\ \E raw \in QueryInputs, r \in {"match", "nomatch", "error"} :
        LET search_query == Lower(raw)
        IN  /\ inp' = raw
            /\ IF search_query = <<>>
               THEN Return("SearchQuery", <<>>, "none", <<Note("search_cancelled")>>)
               ELSE IF r = "error" /\ ~Catches("fetch_all_remote_data", "Exception")
               THEN Crash("SearchQuery", <<>>, "http")
               ELSE Return("SearchQuery", <<>>, IF r = "error" THEN "http" ELSE "none",
                           <<Note("searching")>> \o
                           (CASE r = "match" -> <<Note("found_rows")>>
                              [] r = "nomatch" -> <<Note("no_models_found")>>
                              [] OTHER -> <<Note("website_error"), Note("no_models_found")>>))

Next ==
    \/ MainLoop
    \/ MainChoice
    \/ Pause
    \/ SelectName
    \/ EnsurePullStep
    \/ ChatPrompt
    \/ ChatStreamStep
    \/ SubMenuInput
    \/ PullModelName
    \/ PullModelConfirm
    \/ PullStep
    \/ RemoveModelName
    \/ RemoveModelConfirm
    \/ StopModelName
    \/ StopModelConfirm
    \/ SearchQuery

Spec == Init /\ [][Next]_vars

----------------------------------------------------------------------------
\* Properties.

\* The items of kind kind printed in o, in the order printed.
Printed(o, kind) ==
    LET keep(it) == it.k = kind
        sel == SelectSeq(o, keep)
    IN  [i \in 1..Len(sel) |-> sel[i].v]

\* Whether note t is among the printed items o.
HasNote(o, t) == \E i \in 1..Len(o) : o[i].k = "note" /\ o[i].v = t

\* The last printed item of o is note t.
EndsWithNote(o, t) == o # <<>> /\ o[Len(o)].k = "note" /\ o[Len(o)].v = t

\* ensure_model_exists got a listing in the last step.
EnsureChecked == last = "SelectName" /\ "list" \in Range(calls) /\ fault = "none"

\* C1: whenever ensure_model_exists(q) has obtained the listing L, it has
\* invoked pull exactly when neither q nor q + ":latest" is in L; when one of
\* them is in L no pull was issued and it returned True, so that the chat loop
\* of run_llama has started.
C1_PullIffAbsent ==
    EnsureChecked =>
        LET present == model_name \in Range(models)
                       \/ (model_name \o Latest) \in Range(models)
        IN  /\ ("pull" \in Range(calls)) <=> ~present
            /\ present => /\ session = "AwaitingPrompt"
                          /\ pc = "chat_prompt"
                          /\ HasNote(out, "ensure_ready")
            /\ ~present => pc = "ensure_pulling" /\ stream = "open"

\* C1 witness: the listing holds neither name and the pull has been started.
C1_Witness ==
    /\ EnsureChecked
    /\ models # <<>>
    /\ model_name = <<"m">>
    /\ calls = <<"list", "pull">>

\* C2 as stated: in the sub-menu a line other than "c" or "q" keeps the
\* session in SubMenu; SubMenu is left for Terminated only on "q" and for
\* AwaitingPrompt only on "c"; no chat call is made in the sub-menu.
C2_Original ==
    /\ last = "SubMenuInput" =>
        /\ inp \notin {<<"c">>, <<"q">>} => session = "SubMenu"
        /\ session = "Terminated" => inp = <<"q">>
        /\ session = "AwaitingPrompt" => inp = <<"c">>
    /\ session = "SubMenu" => "chat" \notin Range(calls)

\* C2 amended: the line is lower-cased and stripped of surrounding blanks
\* first.  A line that is then neither "c" nor "q" keeps the session in
\* SubMenu and the choice is asked again; the session becomes Terminated
\* exactly when the line is then "q", and AwaitingPrompt exactly when it is
\* then "c"; no chat call is made in the sub-menu.
C2_SubMenu ==
    /\ last = "SubMenuInput" =>
        LET key == Strip(Lower(inp))
        IN  /\ key \notin {<<"c">>, <<"q">>} =>
                /\ session = "SubMenu"
                /\ pc = "submenu"
                /\ out = <<Note("invalid_input")>>
            /\ session = "Terminated" <=> key = <<"q">>
            /\ session = "AwaitingPrompt" <=> key = <<"c">>
            /\ key = <<"q">> => pc = "pause"
            /\ key = <<"c">> => pc = "chat_prompt"
    /\ session = "SubMenu" => "chat" \notin Range(calls)

\* C2 witness: an upper-case "C" has continued the chat.
C2_Witness ==
    /\ last = "SubMenuInput"
    /\ inp = <<"C">>
    /\ session = "AwaitingPrompt"

\* C3: when the chat stream raises after some chunks, what was printed for
\* them stays as printed, the failure notice follows it, the session is
\* Terminated and run_llama has returned to main(): no prompt is read and no
\* chat call made before a new session is started from the menu.
C3_ErrorEndsSession ==
    /\ (last = "ChatStreamStep" /\ fault = "chat") =>
        /\ out = <<Note("llama_header")>>
                 \o [i \in 1..Len(delivered) |-> Fragment(ContentOf(delivered[i]))]
                 \o <<Note("chat_error")>>
        /\ session = "Terminated"
        /\ calls = <<>>
    /\ session = "Terminated" => pc = "pause"
    /\ pc \in {"chat_prompt", "streaming", "submenu"} =>
        session \in {"AwaitingPrompt", "Streaming", "SubMenu"}

\* C3 witness: the stream raised after "Hel".
C3_Witness ==
    /\ last = "ChatStreamStep"
    /\ fault = "chat"
    /\ Printed(out, "fragment") = <<"Hel">>
    /\ session = "Terminated"

\* C4: a prompt that is, ignoring case, one of exit, quit, q ends the session
\* at once, and ollama.chat is not invoked for it.
C4_ExitKeyword ==
    (last = "ChatPrompt" /\ Lower(inp) \in ExitKeywords) =>
        /\ session = "Terminated"
        /\ pc = "pause"
        /\ calls = <<>>
        /\ stream = "none"

\* C4 witness: "QUIT" typed at the prompt has ended the session.
C4_Witness ==
    /\ last = "ChatPrompt"
    /\ inp = <<"Q", "U", "I", "T">>
    /\ session = "Terminated"

\* C5 as stated: an empty prompt keeps the session in AwaitingPrompt and no
\* chat request is sent for it.
C5_EmptyPromptReprompts ==
    (last = "ChatPrompt" /\ inp = <<>>) =>
        /\ session = "AwaitingPrompt"
        /\ "chat" \notin Range(calls)

\* The select_and_run_model step from the name prompt, for the name taken as
\* typed: a session starts exactly when typed or typed + ":latest" is
\* installed, then with MODEL_NAME the matching installed name; otherwise
\* MODEL_NAME is unchanged and neither pull nor chat is invoked.
SelectStepFor(typed) ==
    LET exact == typed \in Range(installed_names)
        tagged == (typed \o Latest) \in Range(installed_names)
        started == "list" \in Range(calls')
    IN  /\ started <=> (installed_names # <<>> /\ (exact \/ tagged))
        /\ started => MODEL_NAME' = (IF exact THEN typed ELSE typed \o Latest)
        /\ ~started =>
            /\ MODEL_NAME' = MODEL_NAME
            /\ calls' = <<>>
            /\ session' = "NoSession"
            /\ pc' = "pause"

\* The select_and_run_model step from the menu: with no installed model it
\* returns, MODEL_NAME unchanged, nothing but the listing invoked.
SelectEmptyStep ==
    (pc = "choice" /\ inp' = <<"1">>) =>
        /\ pc' = "select_name" <=> installed_names' # <<>>
        /\ MODEL_NAME' = MODEL_NAME
        /\ calls' = <<"list">>
        /\ session' = "NoSession"

C7_PullOutcome ==
    /\ pc \in {"pulling", "ensure_pulling"} => stream = "open"
    /\ last \in {"PullStep", "EnsurePullStep"} =>
        /\ stream \in {"open", "done", "error"}
        /\ Printed(out, "status")
             = [i \in 1..Len(delivered) |-> StatusOf(delivered[i])]
        /\ stream = "open" =>
            /\ pc = (IF last = "PullStep" THEN "pulling" ELSE "ensure_pulling")
            /\ ~HasNote(out, "pull_ready")
            /\ ~HasNote(out, "pull_failed")
        /\ stream = "done" =>
            /\ fault = "none"
            /\ HasNote(out, "pull_ready")
            /\ ~HasNote(out, "pull_failed")
            /\ last = "PullStep" => pc = "pause"
            /\ last = "EnsurePullStep" => pc = "chat_prompt" /\ session = "AwaitingPrompt"
        /\ stream = "error" =>
            /\ fault = "pull"
            /\ EndsWithNote(out, "pull_failed")
            /\ ~HasNote(out, "pull_ready")
            /\ pc = "pause"
            /\ session = "NoSession"

\* C7 witness: ensure_model_exists read two statuses and the stream ended.
C7_Witness ==
    /\ last = "EnsurePullStep"
    /\ stream = "done"
    /\ Printed(out, "status") = <<"pulling manifest", "downloading">>
    /\ session = "AwaitingPrompt"

\* The exceptions of the daemon calls.
DaemonFaults == {"list", "ps", "pull", "delete", "generate", "chat"}

\* The notices the operations print for a failed daemon call.
FailureNotes ==
    {"menu_offline", "list_error", "ensure_error", "pull_failed", "call_error",
     "ps_error", "chat_error"}

\* C8: when a daemon call fails, the operation that made it prints a failure
\* message and returns: the process does not end, and main() is at its loop,
\* about to read the next selection.
C8_FailuresCaught ==
    /\ fault \in DaemonFaults =>
        /\ pc \in {"choice", "pause"}
        /\ \E t \in FailureNotes : HasNote(out, t)
    /\ pc = "pause" => ENABLED Pause
    /\ pc = "choice" => ENABLED MainChoice

\* C8 witness: ollama.ps() raised inside show_ps and main() goes on.
C8_Witness ==
    /\ fault = "ps"
    /\ pc = "pause"
    /\ HasNote(out, "ps_error")

\* C9: while a chat stream is read, and when it has ended without error, the
\* fragments printed for the turn are the contents of the chunks delivered,
\* each once and in the order delivered; at the clean end the sub-menu opens.
C9_FragmentsInOrder ==
    /\ (session = "Streaming" \/ last = "ChatStreamStep") =>
        Printed(out, "fragment")
          = [i \in 1..Len(delivered) |-> ContentOf(delivered[i])]
    /\ (last = "ChatStreamStep" /\ stream = "done") =>
        /\ session = "SubMenu"
        /\ pc = "submenu"
        /\ out = <<Note("llama_header")>>
                 \o [i \in 1..Len(delivered) |-> Fragment(ContentOf(delivered[i]))]
                 \o <<Note("newline")>>

\* C9 witness: "Hel" then "lo" were delivered and the sub-menu is open.
C9_Witness ==
    /\ last = "ChatStreamStep"
    /\ stream = "done"
    /\ Printed(out, "fragment") = <<"Hel", "lo">>
    /\ session = "SubMenu"

\* C10 as stated: with the daemon reported offline, a selection either exits
\* or only returns to the status check; no operation is dispatched.
C10_OfflineOnlyRetry ==
    (last = "MainChoice" /\ ~is_alive) =>
        /\ pc \in {"exited", "pause"}
        /\ calls = <<>>

====
